---------------------------- MODULE Spec2Model ----------------------------
(***************************************************************************)
(* Deep-Live-Cam: the processor pipeline (modules/core/app.py run, start)  *)
(* and the batch scheduler (modules/processors/registry.py                 *)
(* multi_process_frame), with the frame-processor registry                 *)
(* (load_frame_processor_module, get_frame_processors_modules,             *)
(* set_frame_processors_modules_from_ui).                                  *)
(*                                                                         *)
(* A stage module is identified by its name.  A frame path is identified   *)
(* by its number in the sorted frame sequence (get_temp_frame_paths).      *)
(***************************************************************************)
EXTENDS Integers, Sequences, FiniteSets, TLC

\* ------------------------------------------------------------- bounds
\* Largest number of frames handed to multi_process_frame on its own.
MaxFrames == 33
\* Largest number of frames of a video target in a whole run().
MaxPipeFrames == 9
\* Largest value of config.execution_threads.
MaxThreads == 2
MaxEmbeddings == 4
MaxCentroids == 3
MaxVideoFrames == 2
MaxFaces == 3
MaxBlanks == 2

\* ------------------------------------------------- program constants
BATCH_SIZE == 8
DEFAULT_NUM_THREADS == 4
DEFAULT_MAX_K == 10
RANDOM_STATE == 0
INERTIA_PER_UNIT == 1000000

FRAME_PROCESSORS_INTERFACE ==
    {"pre_check", "pre_start", "process_frame", "process_image", "process_video"}

\* The names argparse accepts for --frame-processor.
Procs == {"face_swapper", "face_enhancer"}

\* The keys of config.fp_ui, in the dict's iteration order.
FpUiKeys == <<"face_enhancer">>

\* execution_threads: int = 8 of modules/config/globals.py
GLOBALS_EXECUTION_THREADS == 8

\* --------------------------------------------------------- sequences
Range(s) == {s[i] : i \in 1..Len(s)}

Min(a, b) == IF a < b THEN a ELSE b

NoDup(s) == \A i, j \in 1..Len(s) : i # j => s[i] # s[j]

\* list.remove(x): drops the first occurrence.
ListRemove(s, x) ==
    LET i == CHOOSE k \in 1..Len(s) : s[k] = x /\ \A j \in 1..(k - 1) : s[j] # x
    IN  SubSeq(s, 1, i - 1) \o SubSeq(s, i + 1, Len(s))

\* Python's range(start, stop, step) as a sequence.
RECURSIVE PyRange(_, _, _)
PyRange(start, stop, step) ==
    IF start >= stop THEN <<>>
    ELSE <<start>> \o PyRange(start + step, stop, step)

\* Python's s[i:j] for 0 <= i <= j (indices from 0, j clipped to len(s)).
PySlice(s, i, j) == SubSeq(s, i + 1, Min(j, Len(s)))

RECURSIVE Concat(_)
Concat(ss) == IF ss = <<>> THEN <<>> ELSE Head(ss) \o Concat(Tail(ss))

\* ------------------------------------------------------------- state
VARIABLES
    moduleEnv,                \* what importing modules.processors.frame.<name> gives
    args_frame_processor,     \* args.frame_processor of parse_args
    frame_processors,         \* config.frame_processors
    fp_ui,                    \* config.fp_ui
    FRAME_PROCESSORS_MODULES, \* registry.FRAME_PROCESSORS_MODULES
    execution_threads,        \* config.execution_threads
    headless,                 \* config.headless
    target,                   \* has_image_extension(config.target_path)
    pc,                       \* where the main thread is
    idx,                      \* the position of the running for loop
    prechecked,               \* stages whose pre_check() was called and returned True
    preStartLog,              \* stages whose pre_start() this start() has called
    preStartFailed,           \* a pre_start() of this start() returned False
    failedLoads,              \* names load_frame_processor_module failed on in this start()
    copied,                   \* shutil.copy2 of this start(): "no", "ok", "failed"
    extracted,                \* this start() ran create_temp / extract_frames
    output,                   \* the file at config.output_path
    imageLog,                 \* stages whose process_image this start() has called
    videoLog,                 \* stages whose process_video this start() has called
    temp_frame_paths,         \* the frame paths of the video target
    batches,                  \* multi_process_frame: batches
    submitted,                \* multi_process_frame: batches submitted so far
    tasks,                    \* the executors' work items
    processed,                \* calls of the work function per frame, this call
    embeddings,               \* find_cluster_centroids: the argument embeddings
    max_k,                    \* find_cluster_centroids: the argument max_k
    cpc,                      \* where find_cluster_centroids is
    inertias,                 \* find_cluster_centroids: inertias
    all_centroids,            \* find_cluster_centroids: all_centroids
    centroids,                \* what find_cluster_centroids returned last
    call,                     \* which call of find_cluster_centroids this is
    first_centroids,          \* what the first of two calls returned
    kmeans_fits,              \* the fits KMeans has produced, by seed and k
    assigned,                 \* closest_idx of every embedding
    centroids_arg,            \* find_closest_centroid: the argument centroids
    query,                    \* find_closest_centroid: normed_face_embedding
    closest,                  \* what find_closest_centroid returned
    apc,                      \* where the caller of the face functions is
    frame_count,              \* get_unique_faces_from_target_video: len(temp_frame_paths)
    frame_i,                  \* the frames the loop of lines 119-129 has done
    frame_face_embeddings,    \* get_unique_faces_from_target_video: frame_face_embeddings
    source_target_map,        \* config.source_target_map
    image_many_faces,               \* get_unique_faces_from_target_image: image_many_faces
    unreadable_again,         \* ids of the entries whose cv2.imread in default_target_face failed
    had_entries,              \* history: the builder running or last returned was called on a map with
                              \* entries; not kept once a video build goes on to read frames
    available_providers,      \* onnxruntime.get_available_providers()
    execution_providers,      \* config.execution_providers
    threads_default,          \* the default of --execution-threads in the parser
    args,                     \* what program.parse_args() returned
    keep_frames,              \* config.keep_frames
    temp_dir,                 \* the temp directory of the target: "absent", "present", "removed"
    signalled                 \* SIGINT has been delivered and its handler has run

configVars == <<moduleEnv, args_frame_processor, frame_processors, fp_ui,
                FRAME_PROCESSORS_MODULES, execution_threads, headless, target>>
runVars == <<prechecked, preStartLog, preStartFailed, failedLoads, copied,
             extracted, output, imageLog, videoLog>>
schedVars == <<batches, submitted, tasks, processed>>
pipeVars == <<configVars, pc, idx, runVars, temp_frame_paths, schedVars>>
clusterVars == <<embeddings, max_k, cpc, inertias, all_centroids, centroids, call,
                 first_centroids, kmeans_fits, assigned>>
closestVars == <<centroids_arg, query, closest>>
mapVars == <<frame_count, frame_i, frame_face_embeddings, source_target_map,
             image_many_faces, unreadable_again, had_entries>>
faceVars == <<clusterVars, closestVars, apc, mapVars>>
argVars == <<available_providers, execution_providers, threads_default, args>>
sigVars == <<keep_frames, temp_dir, signalled>>
procVars == <<argVars, sigVars>>
vars == <<pipeVars, faceVars, procVars>>

\* Python's None as the centroids argument, and a list or array of rows.
None == [none |-> TRUE, rows |-> <<>>]
Rows(c) == [none |-> FALSE, rows |-> c]

\* No identity map has been built.
MapIdle ==
    /\ frame_count = 0
    /\ frame_i = 0
    /\ frame_face_embeddings = <<>>
    /\ source_target_map = <<>>
    /\ image_many_faces = <<>>
    /\ unreadable_again = {}
    /\ had_entries = FALSE

\* No command line was parsed and no signal delivered: a CPU-only build with
\* the values of modules/config/globals.py.
NoArgs == [given |-> FALSE]

ProcIdle ==
    /\ available_providers = <<"CPUExecutionProvider">>
    /\ execution_providers = <<>>
    /\ threads_default = 0
    /\ args = NoArgs
    /\ keep_frames = FALSE
    /\ temp_dir = "absent"
    /\ signalled = FALSE

\* No face function has been called.
FaceIdle ==
    /\ embeddings = <<>>
    /\ max_k = DEFAULT_MAX_K
    /\ cpc = "idle"
    /\ inertias = <<>>
    /\ all_centroids = <<>>
    /\ centroids = <<>>
    /\ call = 1
    /\ first_centroids = <<>>
    /\ kmeans_fits = {}
    /\ assigned = <<>>
    /\ centroids_arg = None
    /\ query = <<>>
    /\ closest = [none |-> TRUE]
    /\ apc = "idle"
    /\ MapIdle

\* ---------------------------------------------------------- registry
AbsentModule == [importable |-> FALSE, attrs |-> {}]
FullModule == [importable |-> TRUE, attrs |-> FRAME_PROCESSORS_INTERFACE]
PartialModule ==
    [importable |-> TRUE, attrs |-> FRAME_PROCESSORS_INTERFACE \ {"process_video"}]
ModuleChoices == {AbsentModule, FullModule, PartialModule}

\* load_frame_processor_module forgetting the interface check.
load_frame_processor_module_nocheck(frame_processor) ==
    moduleEnv[frame_processor].importable

\* TRUE when the module is returned, FALSE when sys.exit() is raised.
load_frame_processor_module(frame_processor) ==
    /\ moduleEnv[frame_processor].importable
    /\ \A method_name \in FRAME_PROCESSORS_INTERFACE :
          method_name \in moduleEnv[frame_processor].attrs

\* One iteration per fp_ui item; current_names is computed once, before the loop.
\* r = [mods, fps, failed].
RECURSIVE FromUiLoop(_, _, _, _)
FromUiLoop(keys, current_names, ui, r) ==
    IF keys = <<>> THEN r
    ELSE
      LET frame_processor == Head(keys)
          state == ui[frame_processor]
          r2 ==
            IF state /\ frame_processor \notin current_names
            THEN IF load_frame_processor_module(frame_processor)
                 THEN [r EXCEPT
                         !.mods = Append(r.mods, frame_processor),
                         !.fps = IF frame_processor \notin Range(r.fps)
                                 THEN Append(r.fps, frame_processor)
                                 ELSE r.fps]
                 ELSE [r EXCEPT !.failed = r.failed \cup {frame_processor}]
            ELSE IF ~state /\ frame_processor \in current_names
            THEN [r EXCEPT
                    !.mods = IF frame_processor \in Range(r.mods)
                             THEN ListRemove(r.mods, frame_processor)
                             ELSE r.mods,
                    !.fps = IF frame_processor \in Range(r.fps)
                            THEN ListRemove(r.fps, frame_processor)
                            ELSE r.fps]
            ELSE r
      IN  FromUiLoop(Tail(keys), current_names, ui, r2)

\* get_frame_processors_modules returning the cached list without looking at
\* config.fp_ui.
set_frame_processors_modules_from_ui_skipped(mods, fps, ui) ==
    [mods |-> mods, fps |-> fps, failed |-> {}]

set_frame_processors_modules_from_ui(mods, fps, ui) ==
    FromUiLoop(FpUiKeys, Range(mods), ui, [mods |-> mods, fps |-> fps, failed |-> {}])

\* [exit, mods, fps, failed]: exit is TRUE when SystemExit leaves the function.
get_frame_processors_modules(mods, fps, ui) ==
    IF mods = <<>> /\ \E i \in 1..Len(fps) : ~load_frame_processor_module(fps[i])
    THEN LET bad == CHOOSE i \in 1..Len(fps) :
                      /\ ~load_frame_processor_module(fps[i])
                      /\ \A j \in 1..(i - 1) : load_frame_processor_module(fps[j])
         IN  [exit |-> TRUE, mods |-> SubSeq(fps, 1, bad - 1), fps |-> fps,
              failed |-> {fps[bad]}]
    ELSE LET loaded == IF mods = <<>> THEN fps ELSE mods
             r == set_frame_processors_modules_from_ui(loaded, fps, ui)
         IN  [exit |-> FALSE, mods |-> r.mods, fps |-> r.fps, failed |-> r.failed]

\* ------------------------------------------------- multi_process_frame
\* num_threads = config.execution_threads or 4
num_threads == IF execution_threads # 0 THEN execution_threads ELSE DEFAULT_NUM_THREADS

\* Windows one item too long: neighbouring batches overlap.
BatchesOverlapping(paths) ==
    LET starts == PyRange(0, Len(paths), BATCH_SIZE)
    IN  [k \in 1..Len(starts) |-> PySlice(paths, starts[k], starts[k] + BATCH_SIZE + 1)]

\* [temp_frame_paths[i : i + BATCH_SIZE] for i in range(0, total_frames, BATCH_SIZE)]
Batches(paths) ==
    LET starts == PyRange(0, Len(paths), BATCH_SIZE)
    IN  [k \in 1..Len(starts) |-> PySlice(paths, starts[k], starts[k] + BATCH_SIZE)]

Terminal == {"done", "failed"}

\* The work items of the call in progress (the stage at position idx).
CurrentTasks == {t \in tasks : t.stage = idx}

Running(stage) == {t \in tasks : t.stage = stage /\ t.st = "running"}

\* A pool that starts a thread per work item, whatever max_workers says.
PoolHasIdleWorkerUnbounded(stage) == TRUE

\* ThreadPoolExecutor(max_workers=num_threads): a queued item starts only
\* while fewer than max_workers of the executor's items are running.
PoolHasIdleWorker(stage) == Cardinality(Running(stage)) < num_threads

\* future.result() re-raising to the caller of multi_process_frame.
ResultOutcomeUncaught(t) == IF t.st = "failed" THEN "raise" ELSE "ok"

\* try: future.result()  except Exception as e: print(...)
ResultOutcome(t) == IF t.st = "failed" THEN "printed" ELSE "ok"

\* Submitting and leaving without waiting for the futures.
CanReturnNoWait == submitted = Len(batches)

\* The as_completed loop has yielded every future and the with block's
\* shutdown(wait=True) has joined the workers.
CanReturn ==
    /\ submitted = Len(batches)
    /\ \A t \in CurrentTasks : t.seen
    /\ \A t \in CurrentTasks : t.st \in Terminal

\* multi_process_frame is entered: num_threads, total_frames, batches.
MpfEnter ==
    /\ pc = "mpf_entry"
    /\ batches' = Batches(temp_frame_paths)
    /\ submitted' = 0
    /\ tasks' = {t \in tasks : t.st \notin Terminal}
    /\ processed' = [p \in Range(temp_frame_paths) |-> 0]
    /\ pc' = "mpf_run"
    /\ UNCHANGED <<procVars, faceVars, configVars, idx, runVars, temp_frame_paths>>

\* executor.submit(process_frames, source_path, batch, progress), next batch.
SubmitBatch ==
    /\ pc = "mpf_run"
    /\ submitted < Len(batches)
    /\ submitted' = submitted + 1
    /\ tasks' = tasks \cup {[stage |-> idx, b |-> submitted + 1,
                             items |-> batches[submitted + 1],
                             st |-> "queued", seen |-> FALSE]}
    /\ UNCHANGED <<procVars, faceVars, configVars, pc, idx, runVars, temp_frame_paths, batches, processed>>

\* A pool thread takes a queued item and calls the work function on its batch.
StartBatch ==
    \E t \in tasks :
      /\ t.st = "queued"
      /\ PoolHasIdleWorker(t.stage)
      /\ tasks' = (tasks \ {t}) \cup {[t EXCEPT !.st = "running"]}
      /\ processed' = [p \in DOMAIN processed |->
                         IF t.stage = idx /\ p \in Range(t.items)
                         THEN processed[p] + 1 ELSE processed[p]]
      /\ UNCHANGED <<procVars, faceVars, configVars, pc, idx, runVars, temp_frame_paths, batches, submitted>>

\* The work function returns, or raises an Exception.
FinishBatch ==
    \E t \in tasks, outcome \in Terminal :
      /\ t.st = "running"
      /\ tasks' = (tasks \ {t}) \cup {[t EXCEPT !.st = outcome]}
      /\ UNCHANGED <<procVars, faceVars, configVars, pc, idx, runVars, temp_frame_paths, batches,
                     submitted, processed>>

\* for future in as_completed(futures): future.result()
CollectResult ==
    \E t \in CurrentTasks :
      /\ pc = "mpf_run"
      /\ submitted = Len(batches)
      /\ t.st \in Terminal
      /\ ~t.seen
      /\ tasks' = (tasks \ {t}) \cup {[t EXCEPT !.seen = TRUE]}
      /\ pc' = IF ResultOutcome(t) = "raise" THEN "mpf_raised" ELSE pc
      /\ UNCHANGED <<procVars, faceVars, configVars, idx, runVars, temp_frame_paths, batches,
                     submitted, processed>>

\* multi_process_frame returns to its caller.
MpfReturn ==
    /\ pc = "mpf_run"
    /\ CanReturn
    /\ pc' = "mpf_returned"
    /\ UNCHANGED <<procVars, faceVars, configVars, idx, runVars, temp_frame_paths, schedVars>>

SchedNext ==
    \/ MpfEnter
    \/ SubmitBatch
    \/ StartBatch
    \/ FinishBatch
    \/ CollectResult
    \/ MpfReturn

\* multi_process_frame called on frames 1..n by the first stage of a headless
\* video run.
SchedInit ==
    /\ moduleEnv = [p \in Procs |-> FullModule]
    /\ args_frame_processor = <<"face_swapper">>
    /\ frame_processors = <<"face_swapper">>
    /\ fp_ui = [k \in Range(FpUiKeys) |-> FALSE]
    /\ FRAME_PROCESSORS_MODULES = <<"face_swapper">>
    /\ execution_threads \in 0..MaxThreads
    /\ headless = TRUE
    /\ target = "video"
    /\ pc = "mpf_entry"
    /\ idx = 1
    /\ prechecked = {"face_swapper"}
    /\ preStartLog = <<"face_swapper">>
    /\ preStartFailed = FALSE
    /\ failedLoads = {}
    /\ copied = "no"
    /\ extracted = TRUE
    /\ output = [base |-> "missing", applied |-> <<>>]
    /\ imageLog = <<>>
    /\ videoLog = <<"face_swapper">>
    /\ \E n \in 0..MaxFrames : temp_frame_paths = [i \in 1..n |-> i]
    /\ batches = <<>>
    /\ submitted = 0
    /\ tasks = {}
    /\ processed = <<>>
    /\ FaceIdle
    /\ ProcIdle

SchedSpec == SchedInit /\ [][SchedNext]_vars

\* The pool's threads and the main thread keep running.
SchedFairSpec == SchedSpec /\ WF_vars(SchedNext)


\* ------------------------------------------------------ run, start
\* --frame-processor: nargs="+", choices face_swapper, face_enhancer.
StartupLists ==
    {<<"face_swapper">>, <<"face_enhancer">>,
     <<"face_swapper", "face_enhancer">>, <<"face_enhancer", "face_swapper">>}

\* The state parse_args leaves.
Init ==
    /\ moduleEnv \in [Procs -> ModuleChoices]
    /\ args_frame_processor \in StartupLists
    /\ frame_processors = args_frame_processor
    /\ fp_ui = [k \in Range(FpUiKeys) |-> k \in Range(args_frame_processor)]
    /\ FRAME_PROCESSORS_MODULES = <<>>
    /\ execution_threads \in 0..MaxThreads
    /\ headless \in BOOLEAN
    /\ target \in {"image", "video"}
    /\ pc = "run_pre_check"
    /\ idx = 1
    /\ prechecked = {}
    /\ preStartLog = <<>>
    /\ preStartFailed = FALSE
    /\ failedLoads = {}
    /\ copied = "no"
    /\ extracted = FALSE
    /\ output = [base |-> "missing", applied |-> <<>>]
    /\ imageLog = <<>>
    /\ videoLog = <<>>
    /\ temp_frame_paths = <<>>
    /\ batches = <<>>
    /\ submitted = 0
    /\ tasks = {}
    /\ processed = <<>>
    /\ FaceIdle
    /\ ProcIdle

\* for frame_processor in get_frame_processors_modules(config.frame_processors):
\* the call, then the loop from its first element; SystemExit ends the process.
Resolve(next) ==
    LET r == get_frame_processors_modules(FRAME_PROCESSORS_MODULES, frame_processors, fp_ui)
    IN  /\ FRAME_PROCESSORS_MODULES' = r.mods
        /\ frame_processors' = r.fps
        /\ failedLoads' = failedLoads \cup r.failed
        /\ pc' = IF r.exit THEN "exited" ELSE next
        /\ idx' = 1

\* start() is entered: nothing of this call has happened yet.
StartCall ==
    /\ pc' = "start_resolve"
    /\ idx' = 1
    /\ preStartLog' = <<>>
    /\ preStartFailed' = FALSE
    /\ failedLoads' = {}
    /\ copied' = "no"
    /\ extracted' = FALSE
    /\ imageLog' = <<>>
    /\ videoLog' = <<>>

\* run(): if not pre_check(): return
CorePreCheck ==
    /\ pc = "run_pre_check"
    /\ \E ok \in BOOLEAN : pc' = IF ok THEN "run_resolve" ELSE "exited"
    /\ UNCHANGED <<procVars, faceVars, configVars, idx, runVars, temp_frame_paths, schedVars>>

RunResolve ==
    /\ pc = "run_resolve"
    /\ Resolve("run_stage_pre_check")
    /\ UNCHANGED <<procVars, faceVars, moduleEnv, args_frame_processor, fp_ui, execution_threads, headless,
                   target, prechecked, preStartLog, preStartFailed, copied, extracted,
                   output, imageLog, videoLog, temp_frame_paths, schedVars>>

\* run(): if not frame_processor.pre_check(): return
RunStagePreCheck ==
    /\ pc = "run_stage_pre_check"
    /\ idx <= Len(FRAME_PROCESSORS_MODULES)
    /\ \E ok \in BOOLEAN :
         /\ prechecked' = IF ok THEN prechecked \cup {FRAME_PROCESSORS_MODULES[idx]}
                          ELSE prechecked
         /\ pc' = IF ok THEN pc ELSE "exited"
         /\ idx' = IF ok THEN idx + 1 ELSE idx
    /\ UNCHANGED <<procVars, faceVars, configVars, preStartLog, preStartFailed, failedLoads, copied,
                   extracted, output, imageLog, videoLog, temp_frame_paths, schedVars>>

\* run(): limit_resources(); headless: start()
RunHeadlessStart ==
    /\ pc = "run_stage_pre_check"
    /\ idx > Len(FRAME_PROCESSORS_MODULES)
    /\ headless
    /\ StartCall
    /\ UNCHANGED <<procVars, faceVars, configVars, prechecked, output, temp_frame_paths, schedVars>>

\* run(): limit_resources(); window = ui.init(start, destroy, lang); mainloop()
RunUiInit ==
    /\ pc = "run_stage_pre_check"
    /\ idx > Len(FRAME_PROCESSORS_MODULES)
    /\ ~headless
    /\ pc' = "ui_idle"
    /\ UNCHANGED <<procVars, faceVars, configVars, idx, runVars, temp_frame_paths, schedVars>>

\* The window calls the start it was given.
UiStart ==
    /\ pc = "ui_idle"
    /\ StartCall
    /\ UNCHANGED <<procVars, faceVars, configVars, prechecked, output, temp_frame_paths, schedVars>>

\* Where the window takes a toggle: between runs of start().
TogglePoints == {"ui_idle"}

\* The user switches a stage's toggle: config.fp_ui[key] = not config.fp_ui[key].
Toggle ==
    /\ ~headless
    /\ pc \in TogglePoints
    /\ \E k \in Range(FpUiKeys) : fp_ui' = [fp_ui EXCEPT ![k] = ~fp_ui[k]]
    /\ UNCHANGED <<procVars, faceVars, moduleEnv, args_frame_processor, frame_processors,
                   FRAME_PROCESSORS_MODULES, execution_threads, headless, target,
                   pc, idx, runVars, temp_frame_paths, schedVars>>

StartResolve ==
    /\ pc = "start_resolve"
    /\ Resolve("start_pre_start")
    /\ UNCHANGED <<procVars, faceVars, moduleEnv, args_frame_processor, fp_ui, execution_threads, headless,
                   target, prechecked, preStartLog, preStartFailed, copied, extracted,
                   output, imageLog, videoLog, temp_frame_paths, schedVars>>

\* A false pre_start() that does not end start().
AfterPreStartNoReturn(ok) == "start_pre_start"

\* if not frame_processor.pre_start(): return
AfterPreStart(ok) == IF ok THEN "start_pre_start" ELSE "start_return"

StartPreStart ==
    /\ pc = "start_pre_start"
    /\ idx <= Len(FRAME_PROCESSORS_MODULES)
    /\ \E ok \in BOOLEAN :
         /\ preStartLog' = Append(preStartLog, FRAME_PROCESSORS_MODULES[idx])
         /\ preStartFailed' = (preStartFailed \/ ~ok)
         /\ pc' = AfterPreStart(ok)
         /\ idx' = idx + 1
    /\ UNCHANGED <<procVars, faceVars, configVars, prechecked, failedLoads, copied, extracted, output,
                   imageLog, videoLog, temp_frame_paths, schedVars>>

\* The pre_start loop is over; has_image_extension(config.target_path) picks the
\* branch and config.nsfw_filter with ui.check_and_ignore_nsfw may end start().
StartBranch ==
    /\ pc = "start_pre_start"
    /\ idx > Len(FRAME_PROCESSORS_MODULES)
    /\ \E nsfw \in BOOLEAN :
         pc' = IF nsfw THEN "start_return"
               ELSE IF target = "image" THEN "img_copy" ELSE "vid_extract"
    /\ UNCHANGED <<procVars, faceVars, configVars, idx, runVars, temp_frame_paths, schedVars>>

\* try: shutil.copy2(target_path, output_path)  except Exception: print(...)
\* A failed copy leaves at output_path whatever was there.
ImgCopy ==
    /\ pc = "img_copy"
    /\ \E ok \in BOOLEAN :
         /\ copied' = IF ok THEN "ok" ELSE "failed"
         /\ output' = IF ok THEN [base |-> "target", applied |-> <<>>]
                      ELSE [base |-> IF output.base = "missing" THEN "missing" ELSE "stale",
                            applied |-> <<>>]
    /\ pc' = "img_resolve"
    /\ UNCHANGED <<procVars, faceVars, configVars, idx, prechecked, preStartLog, preStartFailed, failedLoads,
                   extracted, imageLog, videoLog, temp_frame_paths, schedVars>>

ImgResolve ==
    /\ pc = "img_resolve"
    /\ Resolve("img_loop")
    /\ UNCHANGED <<procVars, faceVars, moduleEnv, args_frame_processor, fp_ui, execution_threads, headless,
                   target, prechecked, preStartLog, preStartFailed, copied, extracted,
                   output, imageLog, videoLog, temp_frame_paths, schedVars>>

\* process_image reading the target again instead of the output so far.
ProcessImageFromTarget(out, name) == [base |-> "target", applied |-> <<name>>]

\* frame_processor.process_image(source_path, output_path, output_path): the
\* stage reads the file at output_path and writes its result there.
ProcessImageCall(out, name) == [out EXCEPT !.applied = Append(out.applied, name)]

ImgProcess ==
    /\ pc = "img_loop"
    /\ idx <= Len(FRAME_PROCESSORS_MODULES)
    /\ imageLog' = Append(imageLog, FRAME_PROCESSORS_MODULES[idx])
    /\ output' = ProcessImageCall(output, FRAME_PROCESSORS_MODULES[idx])
    /\ idx' = idx + 1
    /\ UNCHANGED <<procVars, faceVars, configVars, pc, prechecked, preStartLog, preStartFailed, failedLoads,
                   copied, extracted, videoLog, temp_frame_paths, schedVars>>

\* The image loop is over: the status line, return.
ImgDone ==
    /\ pc = "img_loop"
    /\ idx > Len(FRAME_PROCESSORS_MODULES)
    /\ pc' = "start_return"
    /\ UNCHANGED <<procVars, faceVars, configVars, idx, runVars, temp_frame_paths, schedVars>>

\* if not map_faces: create_temp, extract_frames; then get_temp_frame_paths:
\* the sorted frame files of the temp directory.
VidExtract ==
    /\ pc = "vid_extract"
    /\ \E map_faces \in BOOLEAN, n \in 0..MaxPipeFrames :
         /\ extracted' = ~map_faces
         /\ temp_frame_paths' = [i \in 1..n |-> i]
    /\ pc' = "vid_resolve"
    /\ UNCHANGED <<procVars, faceVars, configVars, idx, prechecked, preStartLog, preStartFailed, failedLoads,
                   copied, output, imageLog, videoLog, schedVars>>

VidResolve ==
    /\ pc = "vid_resolve"
    /\ Resolve("vid_loop")
    /\ UNCHANGED <<procVars, faceVars, moduleEnv, args_frame_processor, fp_ui, execution_threads, headless,
                   target, prechecked, preStartLog, preStartFailed, copied, extracted,
                   output, imageLog, videoLog, temp_frame_paths, schedVars>>

\* The stage's process_video hands the whole frame list to the registry's
\* process_video, which calls multi_process_frame on it.
StageProcessVideo == pc' = "mpf_entry" /\ UNCHANGED temp_frame_paths

\* frame_processor.process_video(config.source_path, temp_frame_paths)
VidStageCall ==
    /\ pc = "vid_loop"
    /\ idx <= Len(FRAME_PROCESSORS_MODULES)
    /\ videoLog' = Append(videoLog, FRAME_PROCESSORS_MODULES[idx])
    /\ StageProcessVideo
    /\ UNCHANGED <<procVars, faceVars, configVars, idx, prechecked, preStartLog, preStartFailed, failedLoads,
                   copied, extracted, output, imageLog, schedVars>>

\* process_video has returned: release_resources(), the next stage.
VidStageReturn ==
    /\ pc = "mpf_returned"
    /\ pc' = "vid_loop"
    /\ idx' = idx + 1
    /\ UNCHANGED <<procVars, faceVars, configVars, runVars, temp_frame_paths, schedVars>>

\* The video loop is over: create_video, restore_audio or move_temp,
\* clean_temp, return.  The locals of the last call are gone.
VidFinish ==
    /\ pc = "vid_loop"
    /\ idx > Len(FRAME_PROCESSORS_MODULES)
    /\ output' = [base |-> "video", applied |-> videoLog]
    /\ temp_frame_paths' = <<>>
    /\ batches' = <<>>
    /\ submitted' = 0
    /\ tasks' = {t \in tasks : t.st \notin Terminal}
    /\ processed' = <<>>
    /\ pc' = "start_return"
    /\ UNCHANGED <<procVars, faceVars, configVars, idx, prechecked, preStartLog, preStartFailed, failedLoads,
                   copied, extracted, imageLog, videoLog>>

\* start() returns: to run(), which ends, or to the window.
StartReturn ==
    /\ pc = "start_return"
    /\ pc' = IF headless THEN "exited" ELSE "ui_idle"
    /\ UNCHANGED <<procVars, faceVars, configVars, idx, runVars, temp_frame_paths, schedVars>>

Next ==
    \/ CorePreCheck
    \/ RunResolve
    \/ RunStagePreCheck
    \/ RunHeadlessStart
    \/ RunUiInit
    \/ UiStart
    \/ Toggle
    \/ StartResolve
    \/ StartPreStart
    \/ StartBranch
    \/ ImgCopy
    \/ ImgResolve
    \/ ImgProcess
    \/ ImgDone
    \/ VidExtract
    \/ VidResolve
    \/ VidStageCall
    \/ MpfEnter
    \/ SubmitBatch
    \/ StartBatch
    \/ FinishBatch
    \/ CollectResult
    \/ MpfReturn
    \/ VidStageReturn
    \/ VidFinish
    \/ StartReturn

Spec == Init /\ [][Next]_vars

\* Where start() hands control to the window between its two loops: the
\* status lines after the pre_start loop, up to the next call of
\* get_frame_processors_modules.
MidStartPoints == {"img_copy", "img_resolve", "vid_extract", "vid_resolve"}

\* The window takes a toggle while start() is between its loops.
ToggleInStart ==
    /\ ~headless
    /\ pc \in MidStartPoints
    /\ \E k \in Range(FpUiKeys) : fp_ui' = [fp_ui EXCEPT ![k] = ~fp_ui[k]]
    /\ UNCHANGED <<procVars, faceVars, moduleEnv, args_frame_processor, frame_processors,
                   FRAME_PROCESSORS_MODULES, execution_threads, headless, target,
                   pc, idx, runVars, temp_frame_paths, schedVars>>

MidToggleNext ==
    \/ Next
    \/ ToggleInStart

MidToggleSpec == Init /\ [][MidToggleNext]_vars

\* The pipeline at rest in the UI, after a start-up with face_swapper.
PipelineIdle ==
    /\ moduleEnv = [p \in Procs |-> FullModule]
    /\ args_frame_processor = <<"face_swapper">>
    /\ frame_processors = <<"face_swapper">>
    /\ fp_ui = [k \in Range(FpUiKeys) |-> FALSE]
    /\ FRAME_PROCESSORS_MODULES = <<"face_swapper">>
    /\ execution_threads = 0
    /\ headless = FALSE
    /\ target = "video"
    /\ pc = "ui_idle"
    /\ idx = 1
    /\ prechecked = {"face_swapper"}
    /\ preStartLog = <<>>
    /\ preStartFailed = FALSE
    /\ failedLoads = {}
    /\ copied = "no"
    /\ extracted = FALSE
    /\ output = [base |-> "missing", applied |-> <<>>]
    /\ imageLog = <<>>
    /\ videoLog = <<>>
    /\ temp_frame_paths = <<>>
    /\ batches = <<>>
    /\ submitted = 0
    /\ tasks = {}
    /\ processed = <<>>
    /\ ProcIdle

\* ------------------------------------------------------------ SIGINT
\* clean_temp: shutil.rmtree(temp_dir) unless config.keep_frames.
clean_temp(dir) == IF ~keep_frames /\ dir = "present" THEN "removed" ELSE dir

\* quit() raises SystemExit in the main thread, which except Exception does
\* not catch: inside the with block of multi_process_frame it runs the
\* executor's __exit__, shutdown(wait=True); elsewhere it ends the process.
AfterQuit(at) == IF at = "mpf_run" THEN "mpf_unwinding" ELSE "exited"

\* The main thread is in multi_process_frame or at its call.
InMultiProcessFrame == pc \in {"mpf_entry", "mpf_run", "mpf_returned"}

\* The handler set at line 47 runs destroy() in the main thread.
Sigint ==
    /\ ~signalled
    /\ InMultiProcessFrame
    /\ signalled' = TRUE
    /\ temp_dir' = clean_temp(temp_dir)
    /\ pc' = AfterQuit(pc)
    /\ UNCHANGED <<faceVars, configVars, idx, runVars, temp_frame_paths, schedVars,
                   argVars, keep_frames>>

\* shutdown(wait=True) has joined the workers, which leave only when no work
\* item is left in the queue; SystemExit goes on and the process ends.
PoolShutdown ==
    /\ pc = "mpf_unwinding"
    /\ \A t \in CurrentTasks : t.st \in Terminal
    /\ pc' = "exited"
    /\ UNCHANGED <<procVars, faceVars, configVars, idx, runVars, temp_frame_paths, schedVars>>

\* multi_process_frame called on the frames of a video target whose temp
\* directory holds them.
SigintInit ==
    /\ moduleEnv = [p \in Procs |-> FullModule]
    /\ args_frame_processor = <<"face_swapper">>
    /\ frame_processors = <<"face_swapper">>
    /\ fp_ui = [k \in Range(FpUiKeys) |-> FALSE]
    /\ FRAME_PROCESSORS_MODULES = <<"face_swapper">>
    /\ execution_threads \in 0..MaxThreads
    /\ headless = TRUE
    /\ target = "video"
    /\ pc = "mpf_entry"
    /\ idx = 1
    /\ prechecked = {"face_swapper"}
    /\ preStartLog = <<"face_swapper">>
    /\ preStartFailed = FALSE
    /\ failedLoads = {}
    /\ copied = "no"
    /\ extracted = TRUE
    /\ output = [base |-> "missing", applied |-> <<>>]
    /\ imageLog = <<>>
    /\ videoLog = <<"face_swapper">>
    /\ \E n \in 0..MaxPipeFrames : temp_frame_paths = [i \in 1..n |-> i]
    /\ batches = <<>>
    /\ submitted = 0
    /\ tasks = {}
    /\ processed = <<>>
    /\ FaceIdle
    /\ available_providers = <<"CPUExecutionProvider">>
    /\ execution_providers = <<"CPUExecutionProvider">>
    /\ threads_default = GLOBALS_EXECUTION_THREADS
    /\ args = NoArgs
    /\ keep_frames \in BOOLEAN
    /\ temp_dir = "present"
    /\ signalled = FALSE

SigintNext ==
    \/ MpfEnter
    \/ SubmitBatch
    \/ StartBatch
    \/ FinishBatch
    \/ CollectResult
    \/ MpfReturn
    \/ Sigint
    \/ PoolShutdown

SigintSpec == SigintInit /\ [][SigintNext]_vars

\* --------------------------------------------------------- parse_args
\* What onnxruntime.get_available_providers() lists, by build.
ProviderBuilds ==
    {<<"CPUExecutionProvider">>,
     <<"CUDAExecutionProvider", "CPUExecutionProvider">>,
     <<"ROCMExecutionProvider", "CPUExecutionProvider">>,
     <<"DmlExecutionProvider", "CPUExecutionProvider">>,
     <<"CoreMLExecutionProvider", "CPUExecutionProvider">>}

\* execution_provider.replace("ExecutionProvider", "").lower()
EncodedName ==
    [CPUExecutionProvider |-> "cpu", CUDAExecutionProvider |-> "cuda",
     ROCMExecutionProvider |-> "rocm", DmlExecutionProvider |-> "dml",
     CoreMLExecutionProvider |-> "coreml"]

encode_execution_providers(providers) ==
    [k \in 1..Len(providers) |-> EncodedName[providers[k]]]

\* execution_provider in encoded_execution_provider: of the names cpu, cuda,
\* rocm, dml and coreml none is a part of another.
IsPartOf(name, encoded) == name = encoded

\* The available providers, in their order, whose encoded name holds one of
\* the names asked for.
decode_execution_providers(names) ==
    SelectSeq(available_providers,
              LAMBDA provider : \E name \in names : IsPartOf(name, EncodedName[provider]))

\* suggest_execution_threads(), lines 287-292.
suggest_execution_threads ==
    IF "DmlExecutionProvider" \in Range(execution_providers) THEN 1
    ELSE IF "ROCMExecutionProvider" \in Range(execution_providers) THEN 1
    ELSE 8

\* Lines 47-187: the handler of SIGINT is set and the parser is built; the
\* default of --execution-threads is computed here.
BuildParser ==
    /\ pc = "parse_args"
    /\ threads_default' = suggest_execution_threads
    /\ pc' = "parse_command_line"
    /\ UNCHANGED <<faceVars, configVars, idx, runVars, temp_frame_paths, schedVars,
                   available_providers, execution_providers, args, sigVars>>

\* --gpu-vendor, when given.
GpuVendors == {"apple", "nvidia", "amd"}

\* The command lines: an int option that is absent is None, written 0 where
\* only its truth is looked at.
CommandLines ==
    [given : {TRUE},
     frame_processor : StartupLists,
     headless : BOOLEAN,
     target : {"image", "video"},
     keep_frames : BOOLEAN,
     execution_provider : (SUBSET Range(encode_execution_providers(available_providers))) \ {{}},
     threads_given : BOOLEAN,
     execution_threads : 0..MaxThreads,
     cpu_cores_deprecated : 0..1,
     gpu_vendor_deprecated : GpuVendors \cup {"none"},
     gpu_threads_deprecated : 0..1]

\* args = program.parse_args(), line 189: an option that is not given has its
\* default.
ParseCommandLine ==
    /\ pc = "parse_command_line"
    /\ \E line \in CommandLines :
         /\ line.threads_given \/ line.execution_threads = 0
         /\ args' = [line EXCEPT !.execution_threads =
                        IF line.threads_given THEN line.execution_threads
                        ELSE threads_default]
    /\ pc' = "parse_assign"
    /\ UNCHANGED <<faceVars, configVars, idx, runVars, temp_frame_paths, schedVars,
                   available_providers, execution_providers, threads_default, sigVars>>

\* Lines 234-248: --gpu-vendor replaces the providers.
ProvidersOf(a) ==
    IF a.gpu_vendor_deprecated = "amd" THEN decode_execution_providers({"rocm"})
    ELSE IF a.gpu_vendor_deprecated = "nvidia" THEN decode_execution_providers({"cuda"})
    ELSE IF a.gpu_vendor_deprecated = "apple" THEN decode_execution_providers({"coreml"})
    ELSE decode_execution_providers(a.execution_provider)

\* Lines 211, 229-233 and 249-253: --cpu-cores, then --gpu-threads, replace
\* the threads when they are not 0.
ThreadsOf(a) ==
    IF a.gpu_threads_deprecated # 0 THEN a.gpu_threads_deprecated
    ELSE IF a.cpu_cores_deprecated # 0 THEN a.cpu_cores_deprecated
    ELSE a.execution_threads

\* Lines 191-253: the values are stored in config.
AssignConfig ==
    /\ pc = "parse_assign"
    /\ args_frame_processor' = args.frame_processor
    /\ frame_processors' = args.frame_processor
    /\ fp_ui' = [k \in Range(FpUiKeys) |-> k \in Range(args.frame_processor)]
    /\ headless' = args.headless
    /\ target' = args.target
    /\ keep_frames' = args.keep_frames
    /\ execution_providers' = ProvidersOf(args)
    /\ execution_threads' = ThreadsOf(args)
    /\ pc' = "run_pre_check"
    /\ UNCHANGED <<faceVars, moduleEnv, FRAME_PROCESSORS_MODULES, idx, runVars, temp_frame_paths,
                   schedVars, available_providers, threads_default, args, temp_dir, signalled>>

\* The process at the call of parse_args: config has the values of
\* modules/config/globals.py.
ArgsInit ==
    /\ moduleEnv = [p \in Procs |-> FullModule]
    /\ args_frame_processor = <<>>
    /\ frame_processors = <<>>
    /\ fp_ui = [k \in Range(FpUiKeys) |-> FALSE]
    /\ FRAME_PROCESSORS_MODULES = <<>>
    /\ execution_threads = GLOBALS_EXECUTION_THREADS
    /\ headless = FALSE
    /\ target = "video"
    /\ pc = "parse_args"
    /\ idx = 1
    /\ prechecked = {}
    /\ preStartLog = <<>>
    /\ preStartFailed = FALSE
    /\ failedLoads = {}
    /\ copied = "no"
    /\ extracted = FALSE
    /\ output = [base |-> "missing", applied |-> <<>>]
    /\ imageLog = <<>>
    /\ videoLog = <<>>
    /\ temp_frame_paths = <<>>
    /\ batches = <<>>
    /\ submitted = 0
    /\ tasks = {}
    /\ processed = <<>>
    /\ FaceIdle
    /\ available_providers \in ProviderBuilds
    /\ execution_providers = <<>>
    /\ threads_default = 0
    /\ args = NoArgs
    /\ keep_frames = FALSE
    /\ temp_dir = "absent"
    /\ signalled = FALSE

ArgsNext ==
    \/ BuildParser
    \/ ParseCommandLine
    \/ AssignConfig

ArgsSpec == ArgsInit /\ [][ArgsNext]_vars

\* ------------------------------------------------------------ vectors
\* Embeddings are vectors of integers; a centroid is the mean sum / cnt of the
\* rows of its cluster, kept as the pair so that no division is rounded.
Points == {<<1, 0>>, <<0, 1>>, <<-1, 0>>}

Row(e) == [sum |-> e, cnt |-> 1]

\* np.array(embeddings): one row per embedding, in order.
AsRows(embs) == [i \in 1..Len(embs) |-> Row(embs[i])]

RECURSIVE DotFrom(_, _, _)
DotFrom(u, v, i) == IF i > Len(u) THEN 0 ELSE u[i] * v[i] + DotFrom(u, v, i + 1)

Dot(u, v) == DotFrom(u, v, 1)

\* The rows X[i], i in I, added up; I is not empty.
RECURSIVE SumRows(_, _)
SumRows(X, I) ==
    LET i == CHOOSE j \in I : TRUE
    IN  IF I = {i} THEN X[i]
        ELSE LET rest == SumRows(X, I \ {i})
             IN  [d \in 1..Len(X[i]) |-> X[i][d] + rest[d]]

RECURSIVE SumSquares(_, _)
SumSquares(X, I) ==
    IF I = {} THEN 0
    ELSE LET i == CHOOSE j \in I : TRUE
         IN  Dot(X[i], X[i]) + SumSquares(X, I \ {i})

RECURSIVE Factorial(_)
Factorial(n) == IF n <= 1 THEN 1 ELSE n * Factorial(n - 1)

\* The centroid c is the vector v.
IsVector(c, v) == c.sum = [d \in 1..Len(v) |-> c.cnt * v[d]]

\* np.argmax, np.argmin: the first index (from 0) of the largest, smallest.
ArgMaxLast(s) ==
    (CHOOSE i \in 1..Len(s) :
        (\A j \in 1..Len(s) : s[j] <= s[i]) /\ (\A j \in (i + 1)..Len(s) : s[j] < s[i])) - 1

ArgMax(s) ==
    (CHOOSE i \in 1..Len(s) :
        (\A j \in 1..Len(s) : s[j] <= s[i]) /\ (\A j \in 1..(i - 1) : s[j] < s[i])) - 1

\* np.argmin returning the last index of the smallest.
ArgMinLast(s) ==
    (CHOOSE i \in 1..Len(s) :
        (\A j \in 1..Len(s) : s[j] >= s[i]) /\ (\A j \in (i + 1)..Len(s) : s[j] > s[i])) - 1

ArgMin(s) ==
    (CHOOSE i \in 1..Len(s) :
        (\A j \in 1..Len(s) : s[j] >= s[i]) /\ (\A j \in 1..(i - 1) : s[j] > s[i])) - 1

\* ------------------------------------------- find_cluster_centroids
\* KMeans(n_clusters=k).fit(X) as far as the function depends on it: the rows
\* are split into k clusters that are not empty, equal rows share a cluster (a
\* row goes to its nearest centre), and the centres come in any order. A fit
\* is the sequence of its clusters, each the set of its rows' indices.
KMeansFits(X, k) ==
    {[j \in 1..k |-> {i \in 1..Len(X) : lab[X[i]] = j}] :
        lab \in {l \in [Range(X) -> 1..k] : \A j \in 1..k : \E v \in Range(X) : l[v] = j}}

\* kmeans.cluster_centers_: the mean of every cluster.
ClusterCenters(X, fit) ==
    [j \in 1..Len(fit) |-> [sum |-> SumRows(X, fit[j]), cnt |-> Cardinality(fit[j])]]

\* kmeans.inertia_ times Factorial(Len(X)): the squared distances of the rows
\* to the mean of their cluster, sum |x|^2 - |sum x|^2 / cnt per cluster.
RECURSIVE InertiaFrom(_, _, _)
InertiaFrom(X, fit, j) ==
    IF j > Len(fit) THEN 0
    ELSE LET S == SumRows(X, fit[j])
             F == Factorial(Len(X))
         IN  F * SumSquares(X, fit[j]) - (F \div Cardinality(fit[j])) * Dot(S, S)
             + InertiaFrom(X, fit, j + 1)

ScaledInertia(X, fit) == InertiaFrom(X, fit, 1)

\* The early exit of line 35 with a threshold no inertia reaches.
InertiaAlwaysNegligible(X, scaled) == scaled >= 0

\* kmeans.inertia_ < 1e-6, on the inertia times Factorial(Len(X)).
InertiaNegligible(X, scaled) == scaled * INERTIA_PER_UNIT < Factorial(Len(X))

\* KMeans constructed without random_state: another seed at every call.
FitSeedUnset(c) == c

\* The seed every fit of call number c is given.
FitSeed(c) == RANDOM_STATE

\* A fit with the same seed on the same rows gives the same result.
FitsFor(X, k, seed) ==
    IF \E m \in kmeans_fits : m.seed = seed /\ m.k = k
    THEN {m.fit : m \in {m2 \in kmeans_fits : m2.seed = seed /\ m2.k = k}}
    ELSE KMeansFits(X, k)

\* The guards of lines 16-23, without the one for two embeddings.
ReturnsInputOnlyOne(embs, mk) ==
    Len(embs) = 1 \/ Min(mk, Len(embs)) < 2

\* The guards of lines 16-23: the embeddings are returned as they are.
ReturnsInput(embs, mk) ==
    \/ Len(embs) = 1
    \/ Len(embs) <= 2
    \/ Min(mk, Len(embs)) < 2

\* max_k = min(max_k, n_samples)
ClampedMaxK == Min(max_k, Len(embeddings))

\* np.diff(inertias)
Diff(s) == [j \in 1..(Len(s) - 1) |-> s[j + 1] - s[j]]

\* Lines 39-45 returning all_centroids[optimal_k_idx].
AfterLoopAtIndex(ins, cents) ==
    IF Len(ins) < 2 THEN cents[1]
    ELSE cents[ArgMin(Diff(ins)) + 1]

\* Lines 39-45: what is returned when the loop has run to its end.
AfterLoop(ins, cents) ==
    IF Len(ins) < 2 THEN cents[1]
    ELSE LET optimal_k_idx == ArgMin(Diff(ins))
         IN  cents[(optimal_k_idx + 1) + 1]

\* Lines 9-26.
FccEnter ==
    /\ cpc = "entry"
    /\ inertias' = <<>>
    /\ all_centroids' = <<>>
    /\ IF embeddings = <<>>
       THEN centroids' = <<>> /\ cpc' = "returned"
       ELSE IF ReturnsInput(embeddings, max_k)
       THEN centroids' = AsRows(embeddings) /\ cpc' = "returned"
       ELSE centroids' = centroids /\ cpc' = "loop"
    /\ UNCHANGED <<procVars, pipeVars, embeddings, max_k, call, first_centroids, kmeans_fits,
                   assigned, closestVars, apc, mapVars>>

\* One iteration of the loop of lines 28-36, and lines 39-45 after the last.
FccFit ==
    /\ cpc = "loop"
    /\ LET k == Len(inertias) + 1
           seed == FitSeed(call)
       IN  /\ k <= ClampedMaxK
           /\ \E fit \in FitsFor(embeddings, k, seed) :
                LET inertia == ScaledInertia(embeddings, fit)
                    ins == Append(inertias, inertia)
                    cents == Append(all_centroids, ClusterCenters(embeddings, fit))
                IN  /\ kmeans_fits' = kmeans_fits \cup {[seed |-> seed, k |-> k, fit |-> fit]}
                    /\ inertias' = ins
                    /\ all_centroids' = cents
                    /\ IF InertiaNegligible(embeddings, inertia)
                       THEN centroids' = cents[Len(cents)] /\ cpc' = "returned"
                       ELSE IF k = ClampedMaxK
                       THEN centroids' = AfterLoop(ins, cents) /\ cpc' = "returned"
                       ELSE centroids' = centroids /\ cpc' = "loop"
    /\ UNCHANGED <<procVars, pipeVars, embeddings, max_k, call, first_centroids, assigned,
                   closestVars, apc, mapVars>>

\* -------------------------------------------- find_closest_centroid
RECURSIVE CountProduct(_)
CountProduct(rows) == IF rows = <<>> THEN 1 ELSE Head(rows).cnt * CountProduct(Tail(rows))

\* centroids_arr @ embedding_arr, every entry times the same positive number
\* (the product of the centroids' counts), so that the entries are integers.
Similarities(rows, e) ==
    [i \in 1..Len(rows) |-> Dot(rows[i].sum, e) * (CountProduct(rows) \div rows[i].cnt)]

\* The guard of line 52 taking a single centroid for none.
NoCentroidsBelowTwo(cs) == cs.none \/ Len(cs.rows) <= 1

\* centroids is None or len(centroids) == 0
NoCentroids(cs) == cs.none \/ Len(cs.rows) = 0

\* [none |-> TRUE] is the None returned, [none, idx, vec] the tuple.
find_closest_centroid(cs, normed_face_embedding) ==
    IF NoCentroids(cs) THEN [none |-> TRUE]
    ELSE LET closest_idx == ArgMax(Similarities(cs.rows, normed_face_embedding))
         IN  [none |-> FALSE, idx |-> closest_idx, vec |-> cs.rows[closest_idx + 1]]

\* ----------------------------------------------- the clustering alone
\* find_cluster_centroids called twice on the same embeddings, then every
\* embedding given to find_closest_centroid with the centroids returned.
CallAgain ==
    /\ apc = "first_call"
    /\ cpc = "returned"
    /\ first_centroids' = centroids
    /\ call' = call + 1
    /\ cpc' = "entry"
    /\ apc' = "second_call"
    /\ UNCHANGED <<procVars, pipeVars, embeddings, max_k, inertias, all_centroids, centroids,
                   kmeans_fits, assigned, closestVars, mapVars>>

AssignEmbeddings ==
    /\ apc = "second_call"
    /\ cpc = "returned"
    /\ centroids # <<>>
    /\ assigned' = [i \in 1..Len(embeddings) |->
                      find_closest_centroid(Rows(centroids), embeddings[i]).idx]
    /\ apc' = "assigned"
    /\ UNCHANGED <<procVars, pipeVars, embeddings, max_k, cpc, inertias, all_centroids, centroids,
                   call, first_centroids, kmeans_fits, closestVars, mapVars>>

MaxKChoices == (0..MaxEmbeddings) \cup {DEFAULT_MAX_K}

RECURSIVE SeqsUpTo(_, _)
SeqsUpTo(S, n) ==
    IF n = 0 THEN {<<>>}
    ELSE LET shorter == SeqsUpTo(S, n - 1)
         IN  shorter \cup {Append(q, x) : q \in {r \in shorter : Len(r) = n - 1}, x \in S}

\* Four embeddings that are all different, with every max_k from 2 to 4: the
\* loop runs to its end for 2 and 3 and leaves at k = 4 for 4.
FourDistinct == <<<<1, 0>>, <<0, 1>>, <<-1, 0>>, <<2, 1>>>>

ClusterInit ==
    /\ PipelineIdle
    /\ \/ embeddings \in SeqsUpTo(Points, MaxEmbeddings) /\ max_k \in MaxKChoices
       \/ embeddings = FourDistinct /\ max_k \in 2..Len(FourDistinct)
    /\ cpc = "entry"
    /\ inertias = <<>>
    /\ all_centroids = <<>>
    /\ centroids = <<>>
    /\ call = 1
    /\ first_centroids = <<>>
    /\ kmeans_fits = {}
    /\ assigned = <<>>
    /\ centroids_arg = None
    /\ query = <<>>
    /\ closest = [none |-> TRUE]
    /\ apc = "first_call"
    /\ MapIdle

ClusterNext ==
    \/ FccEnter
    \/ FccFit
    \/ CallAgain
    \/ AssignEmbeddings

ClusterSpec == ClusterInit /\ [][ClusterNext]_vars

\* ------------------------------------------- the closest centroid alone
\* Centroids as they come and as they need not: unit rows, longer rows, means.
CentroidChoices ==
    {Row(<<1, 0>>), Row(<<0, 1>>), Row(<<2, 0>>), Row(<<1, 1>>),
     [sum |-> <<1, 1>>, cnt |-> 2]}

QueryChoices == {<<1, 0>>, <<0, 1>>, <<-1, 0>>}

ClosestCall ==
    /\ apc = "closest_entry"
    /\ closest' = find_closest_centroid(centroids_arg, query)
    /\ apc' = "closest_returned"
    /\ UNCHANGED <<procVars, pipeVars, clusterVars, centroids_arg, query, mapVars>>

ClosestInit ==
    /\ PipelineIdle
    /\ embeddings = <<>>
    /\ max_k = DEFAULT_MAX_K
    /\ cpc = "idle"
    /\ inertias = <<>>
    /\ all_centroids = <<>>
    /\ centroids = <<>>
    /\ call = 1
    /\ first_centroids = <<>>
    /\ kmeans_fits = {}
    /\ assigned = <<>>
    /\ centroids_arg \in {None} \cup {Rows(c) : c \in SeqsUpTo(CentroidChoices, MaxCentroids)}
    /\ query \in QueryChoices
    /\ closest = [none |-> TRUE]
    /\ apc = "closest_entry"
    /\ MapIdle

ClosestSpec == ClosestInit /\ [][ClosestCall]_vars

\* ------------------------------- get_unique_faces_from_target_video
\* What the face analyser finds: an embedding and a det_score (in hundredths).
FaceEmbeddings == {<<1, 0>>, <<0, 1>>}

DetScores == {90, 95}

FaceChoices == [normed_embedding : FaceEmbeddings, det_score : DetScores]

\* The Face objects of frame i: frame and pos tell one object from another,
\* target_centroid is -1 until the key is set.
FacesOfFrame(i, found) ==
    [p \in 1..Len(found) |->
        [frame |-> i, pos |-> p, normed_embedding |-> found[p].normed_embedding,
         det_score |-> found[p].det_score, target_centroid |-> -1]]

\* Where the UI can have an identity map built or a blank entry added.
MapIdlePoints == {"map_idle", "image_returned", "video_returned"}

\* config.source_target_map = [] leaving the list as it is; stale marks the
\* entries that were in the map when the rebuild was called.
KeepMap(map) == [k \in 1..Len(map) |-> [map[k] EXCEPT !.stale = TRUE]]

\* config.source_target_map = []
ResetMap(map) == <<>>

\* The locals of the calls that have returned are gone.
NoLocals ==
    /\ embeddings' = <<>>
    /\ max_k' = DEFAULT_MAX_K
    /\ cpc' = "idle"
    /\ inertias' = <<>>
    /\ all_centroids' = <<>>
    /\ centroids' = <<>>
    /\ kmeans_fits' = {}
    /\ frame_i' = 0
    /\ frame_face_embeddings' = <<>>
    /\ image_many_faces' = <<>>
    /\ unreadable_again' = {}

\* Lines 103-104.
VideoEnter ==
    /\ apc \in MapIdlePoints
    /\ source_target_map' = ResetMap(source_target_map)
    /\ had_entries' = (source_target_map # <<>>)
    /\ NoLocals
    /\ frame_count' = 0
    /\ apc' = "video_entry"
    /\ UNCHANGED <<procVars, pipeVars, call, first_centroids, assigned, closestVars>>

\* Lines 106-114: the frames extract_frames leaves, none for a video it
\* cannot read.
VideoExtract ==
    /\ apc = "video_entry"
    /\ \E n \in 0..MaxVideoFrames :
         /\ frame_count' = n
         /\ apc' = IF n = 0 THEN "video_returned" ELSE "collect"
         /\ had_entries' = (n = 0 /\ had_entries)
    /\ UNCHANGED <<procVars, pipeVars, clusterVars, closestVars, frame_i, frame_face_embeddings,
                   source_target_map, image_many_faces, unreadable_again>>

\* if not face_embeddings: return, never taken.
NoEmbeddingsIgnored(face_embeddings) == FALSE

\* not face_embeddings
NoEmbeddings(face_embeddings) == face_embeddings = <<>>

\* One iteration of the loop of lines 119-129; after the last, lines 131-134.
\* embeddings is face_embeddings, the list find_cluster_centroids is given.
CollectFrame ==
    /\ apc = "collect"
    /\ frame_i < frame_count
    /\ \E readable \in BOOLEAN :
       \E found \in SeqsUpTo(FaceChoices, MaxFaces - Len(embeddings)) :
         /\ readable \/ found = <<>>
         /\ LET many_faces == FacesOfFrame(frame_i, found)
                face_embeddings ==
                  IF readable
                  THEN embeddings \o [p \in 1..Len(found) |-> found[p].normed_embedding]
                  ELSE embeddings
            IN  /\ embeddings' = face_embeddings
                /\ frame_face_embeddings' =
                     IF readable
                     THEN Append(frame_face_embeddings,
                                 [frame |-> frame_i, faces |-> many_faces,
                                  location |-> frame_i])
                     ELSE frame_face_embeddings
                /\ frame_i' = frame_i + 1
                /\ IF frame_i + 1 < frame_count
                   THEN apc' = "collect" /\ UNCHANGED <<max_k, cpc>>
                   ELSE IF NoEmbeddings(face_embeddings)
                   THEN apc' = "video_returned" /\ UNCHANGED <<max_k, cpc>>
                   ELSE apc' = "cluster" /\ max_k' = DEFAULT_MAX_K /\ cpc' = "entry"
    /\ UNCHANGED <<procVars, pipeVars, inertias, all_centroids, centroids, call, first_centroids,
                   kmeans_fits, assigned, closestVars, frame_count, source_target_map,
                   image_many_faces,
                   unreadable_again, had_entries>>

\* Lines 138-141: every face is given the index of its closest centroid.
AssignCentroids(ffe, cents) ==
    [f \in 1..Len(ffe) |->
        [ffe[f] EXCEPT !.faces =
            [p \in 1..Len(ffe[f].faces) |->
                [ffe[f].faces[p] EXCEPT !.target_centroid =
                    find_closest_centroid(Rows(cents),
                                          ffe[f].faces[p].normed_embedding).idx]]]]

\* The list of line 147 taking the faces of every centroid up to i.
MatchingFacesUpTo(faces, i) ==
    SelectSeq(faces, LAMBDA f : f.target_centroid <= i)

\* [f for f in frame["faces"] if f["target_centroid"] == i]
MatchingFaces(faces, i) ==
    SelectSeq(faces, LAMBDA f : f.target_centroid = i)

\* Lines 144-154: centroid_frames[i], an entry for every frame.
CentroidFrames(ffe, i) ==
    [f \in 1..Len(ffe) |->
        [frame |-> ffe[f].frame, faces |-> MatchingFaces(ffe[f].faces, i),
         location |-> ffe[f].location]]

\* Lines 134-159; target is the empty sequence while the key is not set.
VideoBuildMap ==
    /\ apc = "cluster"
    /\ cpc = "returned"
    /\ LET num_centroids == Len(centroids)
           tagged == AssignCentroids(frame_face_embeddings, centroids)
       IN  /\ frame_face_embeddings' = tagged
           /\ source_target_map' =
                source_target_map \o
                [k \in 1..num_centroids |->
                    [id |-> k - 1,
                     target_faces_in_frame |-> CentroidFrames(tagged, k - 1),
                     target |-> <<>>, stale |-> FALSE]]
    /\ apc' = "default_face"
    /\ UNCHANGED <<procVars, pipeVars, clusterVars, closestVars, frame_count, frame_i, image_many_faces,
                   unreadable_again, had_entries>>

\* The faces of an entry, frame by frame and face by face (lines 166-170).
FramesWithFaces(m) ==
    Concat([f \in 1..Len(m.target_faces_in_frame) |-> m.target_faces_in_frame[f].faces])

\* max(..., key=det_score) returning the last of the largest.
BestFaceLast(fwf) ==
    fwf[ArgMaxLast([j \in 1..Len(fwf) |-> fwf[j].det_score]) + 1]

\* max(frames_with_faces, key=lambda x: x[1]["det_score"]): the first of the
\* largest.
BestFace(fwf) ==
    fwf[ArgMax([j \in 1..Len(fwf) |-> fwf[j].det_score]) + 1]

\* Lines 164-180; lost are the ids of the entries whose cv2.imread of line 175
\* returns None.
DefaultTargetFace(map, lost) ==
    [k \in 1..Len(map) |->
        LET frames_with_faces == FramesWithFaces(map[k])
        IN  IF frames_with_faces = <<>> THEN map[k]
            ELSE LET best_face == BestFace(frames_with_faces)
                 IN  IF map[k].id \notin lost
                     THEN [map[k] EXCEPT !.target = <<best_face>>]
                     ELSE map[k]]

\* Line 161.
VideoDefaultTargetFace ==
    /\ apc = "default_face"
    /\ \E lost \in SUBSET {source_target_map[k].id :
                             k \in {j \in 1..Len(source_target_map) :
                                      FramesWithFaces(source_target_map[j]) # <<>>}} :
         /\ unreadable_again' = lost
         /\ source_target_map' = DefaultTargetFace(source_target_map, lost)
    /\ apc' = "video_returned"
    /\ UNCHANGED <<procVars, pipeVars, clusterVars, closestVars, frame_count, frame_i, image_many_faces,
                   frame_face_embeddings, had_entries>>

\* get_unique_faces_from_target_image, line 85.
ImageEnter ==
    /\ apc \in MapIdlePoints
    /\ source_target_map' = ResetMap(source_target_map)
    /\ had_entries' = (source_target_map # <<>>)
    /\ NoLocals
    /\ frame_count' = 0
    /\ apc' = "image_entry"
    /\ UNCHANGED <<procVars, pipeVars, call, first_centroids, assigned, closestVars>>

\* get_unique_faces_from_target_image, lines 86-99: an image entry has the
\* keys id and target.
ImageBuild ==
    /\ apc = "image_entry"
    /\ \E readable \in BOOLEAN :
       \E found \in SeqsUpTo(FaceChoices, MaxFaces) :
         /\ readable \/ found = <<>>
         /\ LET faces == FacesOfFrame(0, found)
            IN  /\ image_many_faces' = faces
                /\ source_target_map' =
                     source_target_map \o
                     [k \in 1..Len(faces) |->
                         [id |-> k - 1, target_faces_in_frame |-> <<>>,
                          target |-> <<faces[k]>>, stale |-> FALSE]]
    /\ apc' = "image_returned"
    /\ UNCHANGED <<procVars, pipeVars, clusterVars, closestVars, frame_count, frame_i,
                   frame_face_embeddings, unreadable_again, had_entries>>

RECURSIVE MaxId(_)
MaxId(map) ==
    IF map = <<>> THEN -1
    ELSE LET rest == MaxId(Tail(map))
         IN  IF Head(map).id > rest THEN Head(map).id ELSE rest

\* add_blank_map numbering the new entry by the length of the map less one.
NextBlankIdBelow(map) == IF map = <<>> THEN 0 ELSE Len(map) - 1

\* max_id + 1, max_id being -1 for the empty map.
NextBlankId(map) == MaxId(map) + 1

\* A blank entry has the key id alone.
IsBlank(m) == m.target_faces_in_frame = <<>> /\ m.target = <<>>

\* add_blank_map, lines 79-81.
AddBlankMap ==
    /\ apc \in MapIdlePoints
    /\ Len(source_target_map) < MaxBlanks
    /\ source_target_map' =
         Append(source_target_map,
                [id |-> NextBlankId(source_target_map), target_faces_in_frame |-> <<>>,
                 target |-> <<>>, stale |-> FALSE])
    /\ apc' = "map_idle"
    /\ NoLocals
    /\ frame_count' = 0
    /\ had_entries' = FALSE
    /\ UNCHANGED <<procVars, pipeVars, call, first_centroids, assigned, closestVars>>

VideoInit ==
    /\ PipelineIdle
    /\ embeddings = <<>>
    /\ max_k = DEFAULT_MAX_K
    /\ cpc = "idle"
    /\ inertias = <<>>
    /\ all_centroids = <<>>
    /\ centroids = <<>>
    /\ call = 1
    /\ first_centroids = <<>>
    /\ kmeans_fits = {}
    /\ assigned = <<>>
    /\ centroids_arg = None
    /\ query = <<>>
    /\ closest = [none |-> TRUE]
    /\ apc = "map_idle"
    /\ MapIdle

VideoNext ==
    \/ ImageEnter
    \/ ImageBuild
    \/ AddBlankMap
    \/ VideoEnter
    \/ VideoExtract
    \/ CollectFrame
    \/ FccEnter
    \/ FccFit
    \/ VideoBuildMap
    \/ VideoDefaultTargetFace

VideoSpec == VideoInit /\ [][VideoNext]_vars

\* ------------------------------------------------- scheduler properties
BatchOf(k) == {t \in CurrentTasks : t.b = k}

\* C1: when multi_process_frame returns, the work function has been called on
\* every input frame exactly once (never zero times, never twice), whatever
\* the interleaving of the pool's threads; and no frame is ever handed to it
\* a second time on the way there.
C1_EachItemExactlyOnce ==
    /\ pc = "mpf_returned" => \A p \in Range(temp_frame_paths) : processed[p] = 1
    /\ pc \in {"mpf_run", "mpf_returned"} =>
         \A p \in Range(temp_frame_paths) : processed[p] <= 1

C1_Witness ==
    /\ pc = "mpf_returned"
    /\ Len(batches) >= 3
    /\ execution_threads = 2
    /\ \E t \in CurrentTasks : t.st = "failed"
    /\ \E t \in CurrentTasks : t.st = "done"

\* C2: N ordered items are cut into exactly ceil(N / 8) contiguous batches
\* (none for N = 0): every batch but the last has 8 items, the last has the
\* remainder, the batches concatenated in order are the input, and N = 20
\* gives sizes 8, 8, 4.
C2_BatchesPartitionInput ==
    pc \in {"mpf_run", "mpf_returned"} =>
      LET N == Len(temp_frame_paths)
          K == Len(batches)
      IN  /\ K * 8 >= N
          /\ (K - 1) * 8 < N
          /\ N = 0 => K = 0
          /\ \A k \in 1..(K - 1) : Len(batches[k]) = 8
          /\ K > 0 => Len(batches[K]) = N - (K - 1) * 8
          /\ K > 0 => Len(batches[K]) \in 1..8
          /\ Concat(batches) = temp_frame_paths
          /\ N = 20 => [k \in 1..K |-> Len(batches[k])] = <<8, 8, 4>>

C2_Witness ==
    /\ pc = "mpf_run"
    /\ Len(temp_frame_paths) = 20
    /\ Len(batches) = 3
    /\ Len(batches[3]) = 4

\* C3 as stated: the batches running at once never outnumber
\* config.execution_threads.
C3_Original ==
    \A t \in tasks : Cardinality(Running(t.stage)) <= execution_threads

\* C3, amended: the batches one call runs at once never outnumber
\* config.execution_threads when that is positive, and never outnumber 4 when
\* it is 0.
C3_RunningAtMostPoolSize ==
    \A t \in tasks :
      Cardinality(Running(t.stage)) <= (IF execution_threads > 0 THEN execution_threads ELSE 4)

\* The pool of a run with execution_threads = 0 is full, a fifth batch waits.
C3_Witness ==
    /\ execution_threads = 0
    /\ Cardinality(Running(idx)) = 4
    /\ \E t \in CurrentTasks : t.st = "queued"

\* C4: multi_process_frame returns only after every batch has been submitted
\* and has completed or failed, and, the threads being scheduled and every call
\* of the work function ending, it does return.
C4_ReturnsAfterAllBatches ==
    /\ [](pc = "mpf_returned" =>
            \A k \in 1..Len(batches) :
              \E t \in BatchOf(k) : t.st \in Terminal)
    /\ <>(pc = "mpf_returned")

C4_Witness ==
    /\ pc = "mpf_returned"
    /\ Len(batches) = 2
    /\ \A t \in CurrentTasks : t.st = "done"

\* C5: a batch whose work function raises does not make multi_process_frame
\* raise, however many batches fail, and every other batch still runs to its
\* own outcome: at the return every batch has been started and has ended.
C5_FailureStaysInItsBatch ==
    /\ pc # "mpf_raised"
    /\ (pc = "mpf_returned" /\ \E t \in CurrentTasks : t.st = "failed") =>
         /\ \A k \in 1..Len(batches) :
              /\ Cardinality(BatchOf(k)) = 1
              /\ \A t \in BatchOf(k) : t.st \in Terminal /\ t.seen
         /\ \A p \in Range(temp_frame_paths) : processed[p] >= 1

C5_Witness ==
    /\ pc = "mpf_returned"
    /\ Cardinality({t \in CurrentTasks : t.st = "failed"}) >= 2
    /\ \E t \in CurrentTasks : t.st = "done"

\* -------------------------------------------------- pipeline properties
\* The module behind a stage name exists and has all five interface functions.
CapabilityComplete(name) ==
    /\ moduleEnv[name].importable
    /\ moduleEnv[name].attrs = FRAME_PROCESSORS_INTERFACE

InScheduler == pc \in {"mpf_entry", "mpf_run", "mpf_returned"}

\* C6: for a video target the stages run one after another in the order of the
\* active stage list: a batch is pending or running only for the stage whose
\* process_video is in progress, and when the next stage's process_video
\* starts the stage before it has processed every frame.
C6_StagesDoNotInterleave ==
    /\ \A t \in tasks : t.st \notin Terminal => (t.stage = idx /\ pc = "mpf_run")
    /\ \A t1, t2 \in tasks : t1.stage < t2.stage => t1.st \in Terminal
    /\ (pc = "mpf_entry" /\ idx > 1) =>
         /\ \A p \in Range(temp_frame_paths) : processed[p] = 1
         /\ \A k \in 1..Len(batches) : \E t \in tasks : t.stage = idx - 1 /\ t.b = k
    /\ InScheduler => videoLog = SubSeq(FRAME_PROCESSORS_MODULES, 1, idx)

C6_Witness ==
    /\ pc = "mpf_run"
    /\ idx = 2
    /\ Len(batches) = 2
    /\ videoLog = <<"face_enhancer", "face_swapper">>
    /\ \E t \in tasks : t.stage = 2 /\ t.st = "running"

C8_PreCheckBeforeProcessing ==
    (imageLog # <<>> \/ videoLog # <<>>) =>
      Range(FRAME_PROCESSORS_MODULES) \subseteq prechecked

\* C9: start() calls pre_start() on the stages in the order of the active
\* list and returns at the first False: after it nothing is copied, no frame
\* is extracted and no process_image or process_video is invoked.
C9_PreStartFailureAborts ==
    /\ pc = "start_pre_start" =>
         preStartLog = SubSeq(FRAME_PROCESSORS_MODULES, 1, idx - 1)
    /\ preStartFailed =>
         /\ pc \in {"start_return", "ui_idle", "exited"}
         /\ preStartLog = SubSeq(FRAME_PROCESSORS_MODULES, 1, Len(preStartLog))
         /\ copied = "no" /\ ~extracted
         /\ imageLog = <<>> /\ videoLog = <<>>
         /\ tasks = {}

C9_Witness ==
    /\ pc = "start_return"
    /\ preStartFailed
    /\ Len(FRAME_PROCESSORS_MODULES) = 2
    /\ preStartLog = <<FRAME_PROCESSORS_MODULES[1]>>

ActiveListCurrent ==
    pc \notin {"run_pre_check", "run_resolve", "ui_idle", "start_resolve", "exited"}

C12_CountWithinMaxK ==
    (cpc = "returned" /\ Len(embeddings) >= 1 /\ max_k >= 1) =>
      (1 <= Len(centroids) /\ Len(centroids) <= Min(max_k, Len(embeddings)))

\* C13: for at most two embeddings find_cluster_centroids returns the input
\* as the centroids, one per embedding and in input order, without a single
\* fit; for no embeddings it returns the empty set.
C13_SmallInputReturnedUnchanged ==
    (cpc = "returned" /\ Len(embeddings) <= 2) =>
      /\ Len(centroids) = Len(embeddings)
      /\ \A i \in 1..Len(embeddings) :
            centroids[i].sum = embeddings[i] /\ centroids[i].cnt = 1
      /\ inertias = <<>> /\ all_centroids = <<>> /\ kmeans_fits = {}

C13_Witness ==
    /\ cpc = "returned"
    /\ Len(embeddings) = 2
    /\ embeddings[1] = embeddings[2]
    /\ max_k = DEFAULT_MAX_K
    /\ Len(centroids) = 2

\* C14: two calls of find_cluster_centroids on the same embeddings and max_k
\* return the same centroids in the same order, every fit being given the
\* same seed.
C14_SameInputSameCentroids ==
    (call = 2 /\ cpc = "returned") => centroids = first_centroids

C14_Witness ==
    /\ call = 2
    /\ cpc = "returned"
    /\ Len(inertias) = 3
    /\ Cardinality(Range(embeddings)) = 3
    /\ ~IsVector(centroids[1], embeddings[1])

\* C18: for the embeddings [1,0], [0,1], [1,0] and max_k = 3 exactly two
\* centroids are returned, one at [1,0] and one at [0,1], and
\* find_closest_centroid gives embeddings 0 and 2 the index of the centroid at
\* [1,0] and embedding 1 the index of the centroid at [0,1].
C18_EndToEndExample ==
    (embeddings = <<<<1, 0>>, <<0, 1>>, <<1, 0>>>> /\ max_k = 3) =>
      /\ cpc = "returned" =>
           /\ Len(centroids) = 2
           /\ \E i, j \in 1..2 :
                i # j /\ IsVector(centroids[i], <<1, 0>>) /\ IsVector(centroids[j], <<0, 1>>)
      /\ apc = "assigned" =>
           /\ Len(assigned) = 3
           /\ IsVector(centroids[assigned[1] + 1], <<1, 0>>)
           /\ IsVector(centroids[assigned[2] + 1], <<0, 1>>)
           /\ IsVector(centroids[assigned[3] + 1], <<1, 0>>)

C18_Witness ==
    /\ embeddings = <<<<1, 0>>, <<0, 1>>, <<1, 0>>>>
    /\ max_k = 3
    /\ apc = "assigned"
    /\ assigned = <<1, 0, 1>>

\* --------------------------------------------- closest centroid properties
\* The similarity of row i is at most (less than) that of row j.
SimilarityAtMost(rows, e, i, j) ==
    Dot(rows[i].sum, e) * rows[j].cnt <= Dot(rows[j].sum, e) * rows[i].cnt

SimilarityBelow(rows, e, i, j) ==
    Dot(rows[i].sum, e) * rows[j].cnt < Dot(rows[j].sum, e) * rows[i].cnt

\* C15: for centroids that are not empty, find_closest_centroid returns the
\* index of a centroid whose dot product with the embedding is the largest,
\* the smallest such index when several are, and that centroid's vector.
C15_ClosestIsFirstMaximum ==
    (apc = "closest_returned" /\ ~centroids_arg.none /\ centroids_arg.rows # <<>>) =>
      /\ ~closest.none
      /\ closest.idx \in 0..(Len(centroids_arg.rows) - 1)
      /\ \A j \in 1..Len(centroids_arg.rows) :
            SimilarityAtMost(centroids_arg.rows, query, j, closest.idx + 1)
      /\ \A j \in 1..closest.idx :
            SimilarityBelow(centroids_arg.rows, query, j, closest.idx + 1)
      /\ closest.vec = centroids_arg.rows[closest.idx + 1]

C15_Witness ==
    /\ apc = "closest_returned"
    /\ centroids_arg = Rows(<<Row(<<0, 1>>), Row(<<1, 0>>), [sum |-> <<1, 1>>, cnt |-> 1]>>)
    /\ query = <<1, 0>>
    /\ closest.idx = 1

\* C16: find_closest_centroid returns None when the centroids are None or
\* empty, and an index with a vector in every other case.
C16_NoneOnlyWithoutCentroids ==
    apc = "closest_returned" =>
      /\ closest.none <=> (centroids_arg.none \/ Len(centroids_arg.rows) = 0)
      /\ ~closest.none =>
           /\ closest.idx \in 0..(Len(centroids_arg.rows) - 1)
           /\ closest.vec \in Range(centroids_arg.rows)

C16_Witness ==
    /\ apc = "closest_returned"
    /\ centroids_arg.none
    /\ closest.none

\* C17 as stated: when the centroids contain the vector V, whatever the other
\* centroids are, find_closest_centroid queried with V returns the index of a
\* centroid that is V.
C17_ExactSelfMatch ==
    (/\ apc = "closest_returned"
     /\ ~centroids_arg.none
     /\ \E i \in 1..Len(centroids_arg.rows) : IsVector(centroids_arg.rows[i], query)) =>
      /\ ~closest.none
      /\ IsVector(centroids_arg.rows[closest.idx + 1], query)

\* ---------------------------------------------- identity map properties
\* get_unique_faces_from_target_video has built the map from some faces.
MapBuilt == apc \in {"default_face", "video_returned"} /\ embeddings # <<>>

\* The face object pos of frame fr is at place q of the faces that entry k
\* lists under its g-th frame.
ListedAt(fr, pos, k, g, q) ==
    /\ source_target_map[k].target_faces_in_frame[g].faces[q].frame = fr
    /\ source_target_map[k].target_faces_in_frame[g].faces[q].pos = pos

\* C19: in video mode the map has exactly one entry per centroid the
\* clustering returned, with ids 0, 1, ... in order; every face detected in a
\* frame carries one centroid index and is listed once, in the entry of that
\* centroid and under its own frame, never twice and never nowhere.
C19_OneEntryPerCentroidOneEntryPerFace ==
    MapBuilt =>
      /\ Len(source_target_map) = Len(centroids)
      /\ \A k \in 1..Len(source_target_map) :
            /\ source_target_map[k].id = k - 1
            /\ Len(source_target_map[k].target_faces_in_frame) = Len(frame_face_embeddings)
      /\ \A f \in 1..Len(frame_face_embeddings) :
         \A p \in 1..Len(frame_face_embeddings[f].faces) :
            LET face == frame_face_embeddings[f].faces[p]
                own == face.target_centroid + 1
            IN  /\ own \in 1..Len(centroids)
                /\ \E q \in 1..Len(source_target_map[own].target_faces_in_frame[f].faces) :
                      /\ ListedAt(face.frame, face.pos, own, f, q)
                      /\ \A k \in 1..Len(source_target_map) :
                         \A g \in 1..Len(source_target_map[k].target_faces_in_frame) :
                         \A r \in 1..Len(source_target_map[k].target_faces_in_frame[g].faces) :
                            ListedAt(face.frame, face.pos, k, g, r) =>
                              (k = own /\ g = f /\ r = q)

C19_Witness ==
    /\ apc = "video_returned"
    /\ Len(source_target_map) = 2
    /\ Len(embeddings) = 3
    /\ \E f \in 1..Len(frame_face_embeddings) :
         /\ Len(frame_face_embeddings[f].faces) = 2
         /\ frame_face_embeddings[f].faces[1].target_centroid
              # frame_face_embeddings[f].faces[2].target_centroid

\* The member faces of an identity entry.
Members(m) ==
    UNION {Range(m.target_faces_in_frame[g].faces) : g \in 1..Len(m.target_faces_in_frame)}

\* Face b has the largest det_score of the faces mem, and of the faces with
\* that det_score it is the first, by frame and then by place in the frame.
FirstOfBest(b, mem) ==
    \A f \in mem :
       /\ f.det_score <= b.det_score
       /\ (f.det_score = b.det_score /\ f # b) =>
            (b.frame < f.frame \/ (b.frame = f.frame /\ b.pos < f.pos))

\* C20 as stated: every identity entry with a member face gets as its
\* representative the member of largest det_score over all frames, the first
\* in frame order on ties, and never a face of another identity.
C20_Original ==
    apc = "video_returned" =>
      \A k \in 1..Len(source_target_map) :
         LET m == source_target_map[k]
             mem == Members(m)
         IN  mem # {} =>
               /\ m.target # <<>>
               /\ m.target[1] \in mem
               /\ FirstOfBest(m.target[1], mem)
               /\ m.target[1].target_centroid = m.id

\* C20, amended: for every identity entry with a member face,
\* default_target_face picks the member of largest det_score over all frames,
\* the first in frame order on ties, and makes it the entry's representative
\* if the image of that face's frame can be read again; if it cannot, the
\* entry is left without a representative. An entry without members has none,
\* and a face of another identity is never the representative.
C20_BestMemberWhenFrameReadable ==
    apc = "video_returned" =>
      \A k \in 1..Len(source_target_map) :
         LET m == source_target_map[k]
             mem == Members(m)
         IN  /\ mem = {} => m.target = <<>>
             /\ mem # {} =>
                  \E b \in mem :
                     /\ FirstOfBest(b, mem)
                     /\ b.target_centroid = m.id
                     /\ m.target = IF m.id \in unreadable_again THEN <<>> ELSE <<b>>

C20_Witness ==
    /\ apc = "video_returned"
    /\ Len(source_target_map) = 2
    /\ \E k \in 1..2 :
         LET m == source_target_map[k]
         IN  /\ m.target # <<>>
             /\ m.target[1].frame = 1
             /\ m.target[1].det_score = 95
             /\ \E f \in Members(m) : f.frame = 0 /\ f.det_score = 90
             /\ \E f \in Members(source_target_map[3 - k]) : f.det_score = 95

\* ------------------------------------------ map lifecycle properties
\* A builder has returned and no add_blank_map has been called since.
BuilderReturned == apc \in {"image_returned", "video_returned"}

\* C21: whatever rebuilds and add_blank_map calls have been made, the ids of
\* config.source_target_map are 0, 1, ..., len-1 in this order, so that
\* add_blank_map, which numbers its entry max(id)+1 and 0 on the empty map,
\* gives the entry it appends the id len-1 of the map it leaves.
C21_IdsDenseAndInOrder ==
    \A k \in 1..Len(source_target_map) : source_target_map[k].id = k - 1

\* A blank entry appended after the entries of a build, and so numbered by
\* the largest id of the build plus one.
C21_Witness ==
    /\ apc = "map_idle"
    /\ Len(source_target_map) = 2
    /\ ~IsBlank(source_target_map[1])
    /\ IsBlank(source_target_map[2])
    /\ source_target_map[2].id = 1

\* C22: from the first line of a builder to its return, on every path, and
\* until the next call, config.source_target_map holds no entry that was
\* in it when the builder was called; a builder that returns early leaves
\* the map empty.
C22_NothingKeptAcrossRebuild ==
    /\ \A k \in 1..Len(source_target_map) : ~source_target_map[k].stale
    /\ (BuilderReturned /\ had_entries /\ image_many_faces = <<>>) =>
          source_target_map = <<>>

\* The video builder, called on a map with entries, has returned early for
\* want of frames.
C22_Witness ==
    /\ apc = "video_returned"
    /\ frame_count = 0
    /\ had_entries
    /\ source_target_map = <<>>

\* The builder that has returned found no face in its target.
NoFaceFound ==
    \/ apc = "image_returned" /\ image_many_faces = <<>>
    \/ apc = "video_returned" /\ embeddings = <<>>

\* C23: a builder that finds no face in the image, or in any frame of the
\* video, a video without a readable frame included, returns with an empty
\* config.source_target_map, and find_cluster_centroids and
\* find_closest_centroid have not been called.
C23_NoFaceGivesEmptyMap ==
    NoFaceFound =>
      /\ source_target_map = <<>>
      /\ cpc = "idle"
      /\ kmeans_fits = {}
      /\ \A f \in 1..Len(frame_face_embeddings) : frame_face_embeddings[f].faces = <<>>

\* A video of two frames, one unreadable and one without a face.
C23_Witness ==
    /\ apc = "video_returned"
    /\ embeddings = <<>>
    /\ frame_count = 2
    /\ Len(frame_face_embeddings) = 1

\* ------------------------------------------- clustering loop properties
\* The j-th inertia recorded is below 1e-6.
Negligible(j) == inertias[j] * INERTIA_PER_UNIT < Factorial(Len(embeddings))

\* find_cluster_centroids has entered its loop in this call.
LoopEntered == Len(embeddings) >= 3 /\ Min(max_k, Len(embeddings)) >= 2

\* C24: for n >= 3 the fits are run for k = 1, 2, ... in this order; at the
\* first k whose inertia is below 1e-6 the centroids of that fit are returned
\* at once and no fit is run for a larger k, and the loop never goes on past
\* an inertia below 1e-6.
C24_EarlyExitAtFirstNegligible ==
    LoopEntered =>
      /\ cpc \in {"loop", "returned"} =>
           /\ Len(all_centroids) = Len(inertias)
           /\ call = 1 => {m.k : m \in kmeans_fits} = 1..Len(inertias)
           /\ \A j \in 1..(Len(inertias) - 1) : ~Negligible(j)
      /\ cpc = "loop" => \A j \in 1..Len(inertias) : ~Negligible(j)
      /\ (cpc = "returned" /\ Len(inertias) < Min(max_k, Len(embeddings))) =>
           /\ Negligible(Len(inertias))
           /\ centroids = all_centroids[Len(inertias)]
      /\ (cpc = "returned" /\ Negligible(Len(inertias))) =>
           centroids = all_centroids[Len(inertias)]

C24_Witness ==
    /\ cpc = "returned"
    /\ Len(embeddings) = 4
    /\ max_k = DEFAULT_MAX_K
    /\ Len(inertias) = 2
    /\ Negligible(2)
    /\ Len(centroids) = 2

\* C25: for n >= 3, when no inertia is below 1e-6, K = min(max_k, n) fits are
\* recorded and the centroids returned are those of the fit for k = j + 1,
\* where j in 1..K-1 is the place of the most negative difference
\* inertia(j+1) - inertia(j), the smallest such j when several are.
C25_ElbowIsFirstLargestDrop ==
    (/\ LoopEntered
     /\ cpc = "returned"
     /\ \A j \in 1..Len(inertias) : ~Negligible(j)) =>
      /\ Len(inertias) = Min(max_k, Len(embeddings))
      /\ Len(all_centroids) = Len(inertias)
      /\ \E j \in 1..(Len(inertias) - 1) :
            /\ \A i \in 1..(Len(inertias) - 1) :
                  inertias[j + 1] - inertias[j] <= inertias[i + 1] - inertias[i]
            /\ \A i \in 1..(j - 1) :
                  inertias[j + 1] - inertias[j] < inertias[i + 1] - inertias[i]
            /\ centroids = all_centroids[j + 1]

C25_Witness ==
    /\ cpc = "returned"
    /\ embeddings = FourDistinct
    /\ Len(inertias) = 3
    /\ ~Negligible(3)
    /\ inertias[2] - inertias[1] = inertias[3] - inertias[2]
    /\ centroids = all_centroids[2]
    /\ centroids # all_centroids[3]

\* C26 as stated: for n >= 3 embeddings and max_k = 1 a single k is
\* evaluated and the one centroid of the k = 1 fit is returned.
C26_SingleFitReturned ==
    (cpc = "returned" /\ Len(embeddings) >= 3 /\ max_k = 1) =>
      /\ Len(inertias) = 1
      /\ Len(all_centroids) = 1
      /\ Len(centroids) = 1
      /\ centroids = all_centroids[1]

\* C30: whenever the elbow selection is reached (n >= 3, max_k >= 2, no
\* inertia below 1e-6) at least two centroids are returned, and the centroids
\* of the k = 1 fit never are.
C30_ElbowNeverReturnsOne ==
    (/\ LoopEntered
     /\ cpc = "returned"
     /\ \A j \in 1..Len(inertias) : ~Negligible(j)) =>
      /\ Len(centroids) >= 2
      /\ \E k \in 2..Len(all_centroids) : centroids = all_centroids[k]
      /\ centroids # all_centroids[1]

C30_Witness ==
    /\ cpc = "returned"
    /\ Len(embeddings) = 3
    /\ max_k = 2
    /\ Len(inertias) = 2
    /\ ~Negligible(2)
    /\ Len(centroids) = 2

\* ------------------------------------------------ parse_args properties
\* parse_args has returned and neither --execution-threads nor one of the
\* deprecated thread options was on the command line.
ThreadsLeftToDefault ==
    /\ pc = "run_pre_check"
    /\ args # NoArgs
    /\ ~args.threads_given
    /\ args.cpu_cores_deprecated = 0
    /\ args.gpu_threads_deprecated = 0

\* C29: with no --execution-threads on the command line, the pool of
\* multi_process_frame has one worker when DmlExecutionProvider or
\* ROCMExecutionProvider is among config.execution_providers, and eight
\* otherwise.
C29_OneWorkerForDmlAndRocm ==
    ThreadsLeftToDefault =>
      num_threads = (IF \/ "DmlExecutionProvider" \in Range(execution_providers)
                        \/ "ROCMExecutionProvider" \in Range(execution_providers)
                     THEN 1 ELSE 8)

\* ------------------------------------------------- mid-start properties
\* C28: within one call of start(), every stage whose process_image or
\* process_video has been invoked had its pre_start invoked in that call, and
\* no pre_start of the call answered False, also when config.fp_ui is
\* toggled between the pre_start loop and the processing loop.
C28_PreStartBeforeProcessing ==
    /\ Range(imageLog) \cup Range(videoLog) \subseteq Range(preStartLog)
    /\ (imageLog # <<>> \/ videoLog # <<>>) => ~preStartFailed

\* ---------------------------------------------------- SIGINT properties
\* C27: once SIGINT has been handled, destroy() has cleaned the temp
\* resources and the process terminates without running further batches: no
\* batch is started by the pool after the interrupt.
C27_NoBatchStartsAfterInterrupt ==
    [][signalled => \A t \in tasks' : t.st = "running" => t \in tasks]_vars

====
